---- MODULE Spec2Model ----
(***************************************************************************)
(* The async tutorial script src/async-example/js/index.js as a state      *)
(* machine.  JavaScript runs every task to completion: an action of this   *)
(* module is one task of the event loop (a click, a response arriving, a   *)
(* body parsed, a timer firing) together with every continuation and       *)
(* promise reaction that runs before the next task.                        *)
(*                                                                         *)
(* The script starts the Example 1 chain, showUserData and                 *)
(* showMultipleUsers and registers the click handler.  The four            *)
(* orchestrations write no common variable (the console is append-only),   *)
(* so each run is explored on its own: `entry` names the entry point that  *)
(* is being run.  showUserData and showMultipleUsers are explored for      *)
(* every argument within the bounds, not only for the literals the script  *)
(* passes.                                                                 *)
(*                                                                         *)
(* The static file server src/node-example/my-app/app.js and the DOM       *)
(* script src/dom-example/js/index.js are two more entry points: an action *)
(* of theirs is one request, one file read ending, or one click.           *)
(*                                                                         *)
(* Spec leaves the order of all events open.  TimedSpec adds a logical     *)
(* clock to the async script: every request and every delay takes one      *)
(* unit of time.                                                           *)
(***************************************************************************)
EXTENDS Integers, Sequences, FiniteSets, TLC

\* ------------------------------------------------------------ bounds
\* longest userIds list handed to showMultipleUsers
MaxIds == 2
\* number of click events delivered to the fetch button
MaxClicks == 2
\* number of requests the static server gets
MaxRequests == 2
\* number of clicks on the add button
MaxItems == 3

\* ------------------------------------------------------- environment
\* identifiers the remote API knows (the ids of the tutorial's users)
UserKeys == 1 .. 3

\* response statuses the remote API answers with
Statuses == {200, 404, 500}

UserNames == <<"Alice Johnson", "Bob Smith", "Carol Williams">>

NoUser == [id |-> 0, name |-> "", hasAddress |-> FALSE]

\* what input.value can hold: an identifier, or (4) another spelling of the
\* address of user 1, such as "1?" or "01", which is not the id of the user
\* the API answers with
InputKeys == UserKeys \cup {4}

\* the id of the user the API answers GET /users/{key} with
UserIdOf(key) == IF key \in UserKeys THEN key ELSE 1

\* body of GET /users/{key}: user 3 comes without address and company, as the
\* users of the script's own table do
RemoteUser(key) ==
    [id |-> UserIdOf(key), name |-> UserNames[UserIdOf(key)], hasAddress |-> UserIdOf(key) # 3]

\* body of GET /posts?userId={userId}: only posts of that user
RemotePosts(userId) == [i \in 1 .. (2 * userId) |-> [userId |-> userId, title |-> i]]

\* -------------------------------------------------------------- errors
NoError == [name |-> "none", text |-> "", codes |-> {}]

\* response.json() rejects when the body is no JSON
BodyError == [name |-> "SyntaxError", text |-> "Unexpected token", codes |-> {}]

\* fetch() rejects when the request cannot be made at all
NetworkError == [name |-> "TypeError", text |-> "Failed to fetch", codes |-> {}]

\* `codes` are the status codes the message text shows
fetchUserError(status) == [name |-> "Error", text |-> "User not found ! Message : ", codes |-> {status}]

fetchUserPostsError(status) == [name |-> "Error", text |-> "User not found ! Message : ", codes |-> {status}]

\* defective variant: only server errors count as failures
ResponseOkBelow500(status) == status < 500

\* response.ok
ResponseOk(status) == status \in 200 .. 299

\* ------------------------------------------------- the async functions
\* A call is an invocation of fetchUser, fetchUserPosts or fetchPostCount that
\* is suspended: `at` is the operation it waits for, `status` the status of
\* the response it holds (0 before the response).
fetchUser(userId) ==
    [fn |-> "fetchUser", at |-> "fetch", url |-> <<"users", userId>>, status |-> 0, posts |-> <<>>]

fetchUserPosts(userId) ==
    [fn |-> "fetchUserPosts", at |-> "fetch", url |-> <<"posts", userId>>, status |-> 0, posts |-> <<>>]

fetchPostCount(posts) ==
    [fn |-> "fetchPostCount", at |-> "timer", url |-> <<"", 0>>, status |-> 0, posts |-> posts]

\* What the environment can deliver to a suspended call.
Events(call) ==
    CASE call.at = "fetch" -> {[type |-> "response", status |-> s] : s \in Statuses}
                              \cup {[type |-> "neterror", status |-> 0]}
      [] call.at = "json"  -> {[type |-> "body", status |-> call.status],
                               [type |-> "badbody", status |-> call.status]}
      [] call.at = "timer" -> {[type |-> "timeout", status |-> 0]}
      [] OTHER -> {}

Suspend(call) == [kind |-> "suspend", call |-> call, err |-> NoError, user |-> NoUser, posts |-> <<>>, count |-> 0]

Throw(call, err) == [kind |-> "throw", call |-> call, err |-> err, user |-> NoUser, posts |-> <<>>, count |-> 0]

Return(call, user, posts, count) ==
    [kind |-> "return", call |-> call, err |-> NoError, user |-> user, posts |-> posts, count |-> count]

\* fetchUser resumed with event ev
fetchUserResume(call, ev) ==
    CASE ev.type = "neterror" -> Throw(call, NetworkError)
      [] ev.type = "badbody" -> Throw(call, BodyError)
      [] ev.type = "response" ->
            IF ~ResponseOk(ev.status)
            THEN Throw([call EXCEPT !.status = ev.status], fetchUserError(ev.status))
            ELSE Suspend([call EXCEPT !.at = "json", !.status = ev.status])
      [] OTHER -> Return(call, RemoteUser(call.url[2]), <<>>, 0)

\* fetchUserPosts resumed with event ev
fetchUserPostsResume(call, ev) ==
    CASE ev.type = "neterror" -> Throw(call, NetworkError)
      [] ev.type = "badbody" -> Throw(call, BodyError)
      [] ev.type = "response" ->
            IF ~ResponseOk(ev.status)
            THEN Throw([call EXCEPT !.status = ev.status], fetchUserPostsError(ev.status))
            ELSE Suspend([call EXCEPT !.at = "json", !.status = ev.status])
      [] OTHER -> Return(call, NoUser, RemotePosts(call.url[2]), 0)

\* the timer of fetchPostCount fires
fetchPostCountResume(call, ev) == Return(call, NoUser, <<>>, Len(call.posts))

Resume(call, ev) ==
    CASE call.fn = "fetchUser" -> fetchUserResume(call, ev)
      [] call.fn = "fetchUserPosts" -> fetchUserPostsResume(call, ev)
      [] OTHER -> fetchPostCountResume(call, ev)

\* every way a suspended call can go on
Outcomes(call) == {Resume(call, ev) : ev \in Events(call)}

\* --------------------------------------------------------------- state
VARIABLES
    entry,      \* the entry point being run
    example1,   \* the Example 1 chain
    showUser,   \* the invocation of showUserData
    userIds,    \* the argument of showMultipleUsers
    multi,      \* the invocation of showMultipleUsers
    pipelines,  \* userPromises: one async callback invocation per identifier
    all,        \* the promise Promise.all(userPromises) returned
    clickRuns,  \* the invocations of the click handler, one per click
    button,     \* #fetch-btn
    output,     \* #output's innerHTML, as the fragments written to it
    thrown,     \* errors that left a handler (rejections nobody handles)
    console,    \* console.log / console.error, in order
    clock,      \* logical time: one unit per network call or delay, when it is on
    requests,   \* my-app/app.js: the requests the server got, with their responses
    itemCount,  \* dom-example: the counter for items
    container   \* dom-example: the children of #container

vars == <<entry, example1, showUser, userIds, multi, pipelines, all, clickRuns, button,
          output, thrown, console, clock, requests, itemCount, container>>

\* what the async tutorial script does not touch
others == <<clock, requests, itemCount, container>>

\* An orchestration: the await it is suspended at, the calls it has pending,
\* its argument and locals, and what it did so far (history: the steps it
\* started, "ok"/"fail" for each awaited call that settled, "catch", "finally";
\* `status` is the status of the response the call that settled last held; `at` is the logical time of its last step).
NewRun == [pc |-> "start", pending |-> {}, arg |-> 0, user |-> NoUser, posts |-> <<>>,
           count |-> 0, err |-> NoError, status |-> 0, trace |-> <<>>, at |-> 0]

\* showMultipleUsers: its position, the error it caught, the list it logged
NewMulti == [pc |-> "start", err |-> NoError, results |-> <<>>, trace |-> <<>>]

\* the awaited call settled with outcome o: it is no longer pending
Settled(run, call, o) ==
    [run EXCEPT !.pending = @ \ {call}, !.status = o.call.status, !.at = clock.now,
                !.trace = Append(@, IF o.kind = "return" THEN "ok" ELSE "fail")]

\* The pending calls of a run that can go on now.  With the clock on, a
\* request or delay takes one unit of time: its response or timeout comes
\* when the clock is past the time the call was made (the body follows the
\* response at once).
Due(run) == {call \in run.pending : ~clock.on \/ call.at = "json" \/ clock.now > run.at}

\* the awaited call moved on to its next suspension point
Moved(run, call, next) == [run EXCEPT !.pending = (@ \ {call}) \cup {next}]

Log(by, level, text, arg) == [by |-> by, level |-> level, text |-> text, arg |-> arg]

Entries == {"example1", "showUserData", "showMultipleUsers", "click", "my-app", "dom-example"}

\* the lists showMultipleUsers is explored for
UserIdLists == UNION {[1 .. n -> UserKeys] : n \in 0 .. MaxIds}

NoAll == [state |-> "none", values |-> <<>>, remaining |-> 0, err |-> NoError]

\* the scripts as loaded
Loaded ==
    /\ entry \in Entries
    /\ example1 = NewRun
    /\ showUser = NewRun
    /\ userIds = <<>>
    /\ multi = NewMulti
    /\ pipelines = <<>>
    /\ all = NoAll
    /\ clickRuns = <<>>
    /\ button = [disabled |-> FALSE]
    /\ output = <<>>
    /\ thrown = <<>>
    /\ console = <<>>
    /\ requests = <<>>
    /\ itemCount = 0
    /\ container = <<>>

Init == Loaded /\ clock = [on |-> FALSE, now |-> 0]

\* ------------------------------------------------------------ Example 1
\* fetchUser(1) at the head of the chain
Example1Calls == {fetchUser(1)}

Example1Start ==
    /\ entry = "example1"
    /\ example1.pc = "start"
    /\ example1' = [example1 EXCEPT !.pc = "awaitUser", !.arg = 1, !.pending = Example1Calls,
                                    !.trace = <<"fetchUser">>]
    /\ UNCHANGED <<entry, showUser, userIds, multi, pipelines, all, clickRuns, button,
                   output, thrown, console>>
    /\ UNCHANGED others

\* .then(user => ...)
Example1ThenUser(run, user) ==
    [run EXCEPT !.pc = "awaitPosts", !.user = user, !.pending = @ \cup {fetchUserPosts(user.id)},
                !.trace = Append(@, "fetchUserPosts")]

\* .then(posts => ...)
Example1ThenPosts(run, posts) ==
    [run EXCEPT !.pc = "awaitCount", !.posts = posts, !.pending = @ \cup {fetchPostCount(posts)},
                !.trace = Append(@, "fetchPostCount")]

\* .then(count => ...)
Example1ThenCount(run, count) == [run EXCEPT !.pc = "settled", !.count = count]

\* .catch(error => ...)
Example1Catch(run, error) ==
    [run EXCEPT !.pc = "settled", !.err = error, !.trace = Append(@, "catch")]

\* .finally(() => ...)
Example1Finally(run) == [run EXCEPT !.pc = "done", !.trace = Append(@, "finally")]

Example1Resume ==
    /\ entry = "example1"
    /\ \E call \in Due(example1) : \E o \in Outcomes(call) :
        CASE o.kind = "suspend" ->
                /\ example1' = Moved(example1, call, o.call)
                /\ UNCHANGED console
          [] o.kind = "throw" ->
                /\ example1' = Example1Finally(Example1Catch(Settled(example1, call, o), o.err))
                /\ console' = console \o <<Log("example1", "error", "Error: ", <<o.err>>),
                                           Log("example1", "log", "Process Complete", <<>>)>>
          [] o.kind = "return" /\ example1.pc = "awaitUser" ->
                /\ example1' = Example1ThenUser(Settled(example1, call, o), o.user)
                /\ console' = Append(console, Log("example1", "log", "User found: ", <<o.user.name>>))
          [] o.kind = "return" /\ example1.pc = "awaitPosts" ->
                /\ example1' = Example1ThenPosts(Settled(example1, call, o), o.posts)
                /\ console' = Append(console, Log("example1", "log", "Found posts", <<Len(o.posts)>>))
          [] OTHER ->
                /\ example1' = Example1Finally(Example1ThenCount(Settled(example1, call, o), o.count))
                /\ console' = console \o <<Log("example1", "log", "Total posts: ", <<o.count>>),
                                           Log("example1", "log", "Process Complete", <<>>)>>
    /\ UNCHANGED <<entry, showUser, userIds, multi, pipelines, all, clickRuns, button,
                   output, thrown>>
    /\ UNCHANGED others

\* ------------------------------------------------------- showUserData
\* defective variant: the posts request does not wait for the user
ShowUserDataCallsBoth(userId) == {fetchUser(userId), fetchUserPosts(userId)}

ShowUserDataCalls(userId) == {fetchUser(userId)}

\* showUserData(userId), up to its first await
ShowUserDataCall ==
    /\ entry = "showUserData"
    /\ showUser.pc = "start"
    /\ \E userId \in UserKeys :
        showUser' = [showUser EXCEPT !.pc = "awaitUser", !.arg = userId,
                                     !.pending = ShowUserDataCalls(userId),
                                     !.trace = <<"fetchUser">>]
    /\ UNCHANGED <<entry, example1, userIds, multi, pipelines, all, clickRuns, button,
                   output, thrown, console>>
    /\ UNCHANGED others

\* const user = await fetchUser(userId); ... fetchUserPosts(user.id)
ShowUserDataAfterUser(run, user) ==
    [run EXCEPT !.pc = "awaitPosts", !.user = user, !.pending = @ \cup {fetchUserPosts(user.id)},
                !.trace = Append(@, "fetchUserPosts")]

\* defective variant: fetchPostCount(posts) is not awaited, the function goes on at once
ShowUserDataAfterPostsNoAwait(run, posts) ==
    [run EXCEPT !.pc = "done", !.posts = posts, !.trace = @ \o <<"fetchPostCount", "finally">>]

\* const posts = await fetchUserPosts(user.id); ... fetchPostCount(posts)
ShowUserDataAfterPosts(run, posts) ==
    [run EXCEPT !.pc = "awaitCount", !.posts = posts, !.pending = @ \cup {fetchPostCount(posts)},
                !.trace = Append(@, "fetchPostCount")]

\* const count = await fetchPostCount(posts);
ShowUserDataAfterCount(run, count) == [run EXCEPT !.pc = "settled", !.count = count]

\* defective variant: the try block ends after the first await: the handler runs and the
\* function goes on to fetch the posts
ShowUserDataCatchGoesOn(run, error) ==
    [run EXCEPT !.err = error, !.pending = @ \cup {fetchUserPosts(run.arg)},
                !.trace = @ \o <<"catch", "fetchUserPosts">>]

\* catch(error) { ... }
ShowUserDataCatch(run, error) ==
    [run EXCEPT !.pc = "settled", !.err = error, !.trace = Append(@, "catch")]

\* finally { ... }
ShowUserDataFinally(run) == [run EXCEPT !.pc = "done", !.trace = Append(@, "finally")]

ShowUserDataResume ==
    /\ entry = "showUserData"
    /\ \E call \in Due(showUser) : \E o \in Outcomes(call) :
        CASE o.kind = "suspend" ->
                /\ showUser' = Moved(showUser, call, o.call)
                /\ UNCHANGED console
          [] o.kind = "throw" ->
                /\ showUser' = ShowUserDataFinally(ShowUserDataCatch(Settled(showUser, call, o), o.err))
                /\ console' = console \o <<Log("showUserData", "error", "Failure due to:", <<o.err>>),
                                           Log("showUserData", "log", "Done", <<>>)>>
          [] o.kind = "return" /\ showUser.pc = "awaitUser" ->
                /\ showUser' = ShowUserDataAfterUser(Settled(showUser, call, o), o.user)
                /\ console' = Append(console, Log("showUserData", "log", "Welcome ", <<o.user.name>>))
          [] o.kind = "return" /\ showUser.pc = "awaitPosts" ->
                /\ showUser' = ShowUserDataAfterPosts(Settled(showUser, call, o), o.posts)
                /\ console' = Append(console, Log("showUserData", "log", "You have posts", <<Len(o.posts)>>))
          [] OTHER ->
                /\ showUser' = ShowUserDataFinally(ShowUserDataAfterCount(Settled(showUser, call, o), o.count))
                /\ console' = console \o <<Log("showUserData", "log", "Post count: ", <<o.count>>),
                                           Log("showUserData", "log", "Done", <<>>)>>
    /\ UNCHANGED <<entry, example1, userIds, multi, pipelines, all, clickRuns, button,
                   output, thrown>>
    /\ UNCHANGED others

\* --------------------------------------------------- the click handler
\* `response` is no variable of the handler's scope: reading it throws
ReferenceError == [name |-> "ReferenceError", text |-> "response is not defined", codes |-> {}]

\* user.address.city, user.company.name of a user that has neither
RenderError == [name |-> "TypeError", text |-> "Cannot read properties of undefined", codes |-> {}]

Min(a, b) == IF a < b THEN a ELSE b

\* the fragments written to #output
Step1(r, user) == [run |-> r, kind |-> "step1", name |-> user.name, n |-> 0]

Step2(r, posts) == [run |-> r, kind |-> "step2", name |-> "", n |-> Len(posts)]

\* the profile, with the titles of posts.slice(0, 5)
Profile(r, user, posts) == [run |-> r, kind |-> "profile", name |-> user.name, n |-> Min(5, Len(posts))]

RenderThrows(user, posts) == ~user.hasAddress

\* defective variant: the profile is appended line by line, so its first lines are
\* in the region when a later line throws
ClickRenderLineByLine(out, r, user, posts) == Append(out, Profile(r, user, posts))

\* defective variant: 'Step 1' is appended to what the region shows
ClickAppendStep1(out, r, user) == Append(out, Step1(r, user))

\* output.innerHTML = `<p>Step 1: ...`: the region is replaced
ClickShowStep1(out, r, user) == <<Step1(r, user)>>

\* output.innerHTML += `...`: the template is evaluated first, so nothing is
\* appended when it throws
ClickRender(out, r, user, posts) ==
    IF RenderThrows(user, posts) THEN out ELSE Append(out, Profile(r, user, posts))

\* defective variant: the handler leaves the button enabled while it runs
ClickLeavesEnabled(btn) == btn

\* button.disabled = true
ClickDisable(btn) == [btn EXCEPT !.disabled = TRUE]

ClickCalls(userId) == {fetchUser(userId)}

\* a click on #fetch-btn: a disabled button delivers no click event
Click ==
    /\ entry = "click"
    /\ ~button.disabled
    /\ Len(clickRuns) < MaxClicks
    /\ \E userId \in InputKeys :
        clickRuns' = Append(clickRuns, [NewRun EXCEPT !.pc = "awaitUser", !.arg = userId,
                                                       !.at = clock.now,
                                                       !.pending = ClickCalls(userId),
                                                       !.trace = <<"fetchUser">>])
    /\ button' = ClickDisable(button)
    /\ UNCHANGED <<entry, example1, showUser, userIds, multi, pipelines, all, output,
                   thrown, console>>
    /\ UNCHANGED others

\* defective variant: the posts are requested for the raw input
ClickAfterUserRawInput(run, user) ==
    [run EXCEPT !.pc = "awaitPosts", !.user = user, !.pending = @ \cup {fetchUserPosts(run.arg)},
                !.trace = Append(@, "fetchUserPosts")]

\* const user = await fetchUser(userId); ... fetchUserPosts(user.id)
ClickAfterUser(run, user) ==
    [run EXCEPT !.pc = "awaitPosts", !.user = user, !.pending = @ \cup {fetchUserPosts(user.id)},
                !.trace = Append(@, "fetchUserPosts")]

\* const posts = await fetchUserPosts(user.id); ... the profile is rendered
ClickAfterPosts(run, posts) ==
    [run EXCEPT !.pc = "render", !.posts = posts, !.trace = Append(@, "render")]

\* catch(error) { throw new Error(`... ${response.status}`) }: the error that
\* leaves the catch block
ClickCatchThrows(error) == ReferenceError

ClickCatch(run, error) ==
    [run EXCEPT !.pc = "settled", !.err = error, !.trace = Append(@, "catch")]

\* defective variant: the button is enabled again at the end of the try block only
ClickFinallyOnSuccess(btn, run) == [btn EXCEPT !.disabled = (run.err # NoError)]

\* finally { button.disabled = false }
ClickFinallyButton(btn, run) == [btn EXCEPT !.disabled = FALSE]

ClickFinally(run) == [run EXCEPT !.pc = "done", !.trace = Append(@, "finally")]

\* the handler's promise rejects with what its catch block threw
ClickFails(r, run, error) ==
    /\ clickRuns' = [clickRuns EXCEPT ![r] = ClickFinally(ClickCatch(run, error))]
    /\ button' = ClickFinallyButton(button, ClickCatch(run, error))
    /\ thrown' = Append(thrown, [by |-> "click", run |-> r, err |-> ClickCatchThrows(error)])

ClickResume(r) ==
    /\ entry = "click"
    /\ \E call \in Due(clickRuns[r]) : \E o \in Outcomes(call) :
        CASE o.kind = "suspend" ->
                /\ clickRuns' = [clickRuns EXCEPT ![r] = Moved(@, call, o.call)]
                /\ UNCHANGED <<button, output, thrown>>
          [] o.kind = "throw" ->
                /\ ClickFails(r, Settled(clickRuns[r], call, o), o.err)
                /\ UNCHANGED output
          [] o.kind = "return" /\ clickRuns[r].pc = "awaitUser" ->
                /\ clickRuns' = [clickRuns EXCEPT ![r] = ClickAfterUser(Settled(@, call, o), o.user)]
                /\ output' = ClickShowStep1(output, r, o.user)
                /\ UNCHANGED <<button, thrown>>
          [] OTHER ->
                LET run == ClickAfterPosts(Settled(clickRuns[r], call, o), o.posts)
                    out == Append(output, Step2(r, o.posts))
                IN  IF RenderThrows(run.user, run.posts)
                    THEN /\ ClickFails(r, [run EXCEPT !.trace = Append(@, "fail")], RenderError)
                         /\ output' = ClickRender(out, r, run.user, run.posts)
                    ELSE /\ clickRuns' = [clickRuns EXCEPT ![r] = ClickFinally(run)]
                         /\ output' = ClickRender(out, r, run.user, run.posts)
                         /\ button' = ClickFinallyButton(button, run)
                         /\ UNCHANGED thrown
    /\ UNCHANGED <<entry, example1, showUser, userIds, multi, pipelines, all, console>>
    /\ UNCHANGED others

\* --------------------------------------------------- showMultipleUsers
Hole == [name |-> "", postCount |-> 0]

\* Promise.all over n promises: already fulfilled (with []) when there are none
PromiseAll(n) ==
    [state |-> IF n = 0 THEN "fulfilled" ELSE "pending", values |-> [k \in 1 .. n |-> Hole],
     remaining |-> n, err |-> NoError]

\* defective variant: the aggregate fulfils with the first promise that fulfils
PromiseAllResolveFirst(p, i, v) ==
    [p EXCEPT !.values = [@ EXCEPT ![i] = v],
              !.remaining = @ - 1,
              !.state = IF @ = "pending" THEN "fulfilled" ELSE @]

\* defective variant: the values are collected in the order the promises fulfil
PromiseAllResolveInCompletionOrder(p, i, v) ==
    [p EXCEPT !.values = [@ EXCEPT ![Len(p.values) - p.remaining + 1] = v],
              !.remaining = @ - 1,
              !.state = IF p.remaining = 1 /\ @ = "pending" THEN "fulfilled" ELSE @]

\* promise i fulfilled with v: v goes to slot i; the last one fulfils the
\* aggregate, unless it is settled already
PromiseAllResolveElement(p, i, v) ==
    [p EXCEPT !.values = [@ EXCEPT ![i] = v],
              !.remaining = @ - 1,
              !.state = IF p.remaining = 1 /\ @ = "pending" THEN "fulfilled" ELSE @]

\* defective variant: best effort, as Promise.allSettled: a rejection only counts as
\* settled, and the aggregate still fulfils once every promise has settled
PromiseAllRejectSettles(p, e) ==
    [p EXCEPT !.remaining = @ - 1,
              !.state = IF p.remaining = 1 /\ @ = "pending" THEN "fulfilled" ELSE @]

\* a promise rejected with e: the first rejection rejects the aggregate
PromiseAllReject(p, e) ==
    IF p.state = "pending" THEN [p EXCEPT !.state = "rejected", !.err = e] ELSE p

\* userIds.map(async (id) => { ... }): each callback runs up to its first await
PipelineStart(id) ==
    [NewRun EXCEPT !.pc = "awaitUser", !.arg = id, !.pending = {fetchUser(id)},
                   !.trace = <<"fetchUser">>]

\* defective variant: a pipeline is started only once the one before it is over
UserPromisesOneByOne(ids) ==
    [i \in 1 .. Len(ids) |-> IF i = 1 THEN PipelineStart(ids[i]) ELSE [NewRun EXCEPT !.arg = ids[i]]]

UserPromises(ids) == [i \in 1 .. Len(ids) |-> PipelineStart(ids[i])]

\* const posts = await fetchUserPosts(user.id)
PipelineAfterUser(run, user) ==
    [run EXCEPT !.pc = "awaitPosts", !.user = user, !.pending = @ \cup {fetchUserPosts(user.id)},
                !.trace = Append(@, "fetchUserPosts")]

\* const count = await fetchPostCount(posts)
PipelineAfterPosts(run, posts) ==
    [run EXCEPT !.pc = "awaitCount", !.posts = posts, !.pending = @ \cup {fetchPostCount(posts)},
                !.trace = Append(@, "fetchPostCount")]

\* return { name: user.name, postCount: count }
PipelineReturn(run, count) == [run EXCEPT !.pc = "fulfilled", !.count = count]

\* defective variant: `user` is declared outside the callback, so every pipeline
\* reads the one the last pipeline of the list has stored
PipelineValueShared(run) == [name |-> pipelines[Len(pipelines)].user.name, postCount |-> run.count]

PipelineValue(run) == [name |-> run.user.name, postCount |-> run.count]

\* an await of the callback threw: its promise rejects
PipelineThrow(run, error) == [run EXCEPT !.pc = "rejected", !.err = error]

\* const results = await Promise.all(userPromises); console.log(..., results)
ShowMultipleUsersAfterAll(m, results) ==
    [m EXCEPT !.pc = "settled", !.results = results, !.trace = Append(@, "log")]

\* catch(error) { ... }
ShowMultipleUsersCatch(m, error) ==
    [m EXCEPT !.pc = "settled", !.err = error, !.trace = Append(@, "catch")]

\* defective variant: the closing log sits at the end of the try block
ShowMultipleUsersFinallyInTry(m) ==
    IF m.err = NoError THEN [m EXCEPT !.pc = "done", !.trace = Append(@, "finally")]
    ELSE [m EXCEPT !.pc = "done"]

\* finally { ... }
ShowMultipleUsersFinally(m) == [m EXCEPT !.pc = "done", !.trace = Append(@, "finally")]

\* showMultipleUsers resumed, once the aggregate p it awaits is settled
ShowMultipleUsersResume(m, p) ==
    /\ all' = p
    /\ CASE m.pc = "awaitAll" /\ p.state = "fulfilled" ->
                /\ multi' = ShowMultipleUsersFinally(ShowMultipleUsersAfterAll(m, p.values))
                /\ console' = console \o
                      <<Log("showMultipleUsers", "log", "Users and their post counts:", p.values),
                        Log("showMultipleUsers", "log", "All fetches complete", <<>>)>>
         [] m.pc = "awaitAll" /\ p.state = "rejected" ->
                /\ multi' = ShowMultipleUsersFinally(ShowMultipleUsersCatch(m, p.err))
                /\ console' = console \o
                      <<Log("showMultipleUsers", "error", "Error fetching multiple users:", <<p.err>>),
                        Log("showMultipleUsers", "log", "All fetches complete", <<>>)>>
         [] OTHER ->
                /\ multi' = m
                /\ UNCHANGED console

\* showMultipleUsers(ids), up to its await (and past it when ids is empty)
ShowMultipleUsersCall ==
    /\ entry = "showMultipleUsers"
    /\ multi.pc = "start"
    /\ \E ids \in UserIdLists :
        /\ userIds' = ids
        /\ pipelines' = UserPromises(ids)
        /\ ShowMultipleUsersResume([multi EXCEPT !.pc = "awaitAll"], PromiseAll(Len(ids)))
    /\ UNCHANGED <<entry, example1, showUser, clickRuns, button, output, thrown>>
    /\ UNCHANGED others

PipelineResume(i) ==
    /\ entry = "showMultipleUsers"
    /\ \E call \in Due(pipelines[i]) : \E o \in Outcomes(call) :
        CASE o.kind = "suspend" ->
                /\ pipelines' = [pipelines EXCEPT ![i] = Moved(@, call, o.call)]
                /\ UNCHANGED <<multi, all, console>>
          [] o.kind = "throw" ->
                /\ pipelines' = [pipelines EXCEPT ![i] = PipelineThrow(Settled(@, call, o), o.err)]
                /\ ShowMultipleUsersResume(multi, PromiseAllReject(all, o.err))
          [] o.kind = "return" /\ pipelines[i].pc = "awaitUser" ->
                /\ pipelines' = [pipelines EXCEPT ![i] = PipelineAfterUser(Settled(@, call, o), o.user)]
                /\ UNCHANGED <<multi, all, console>>
          [] o.kind = "return" /\ pipelines[i].pc = "awaitPosts" ->
                /\ pipelines' = [pipelines EXCEPT ![i] = PipelineAfterPosts(Settled(@, call, o), o.posts)]
                /\ UNCHANGED <<multi, all, console>>
          [] OTHER ->
                LET run == PipelineReturn(Settled(pipelines[i], call, o), o.count)
                IN  /\ pipelines' = [pipelines EXCEPT ![i] = run]
                    /\ ShowMultipleUsersResume(multi, PromiseAllResolveElement(all, i, PipelineValue(run)))
    /\ UNCHANGED <<entry, example1, showUser, userIds, clickRuns, button, output, thrown>>
    /\ UNCHANGED others

\* what the static server and the DOM script do not touch
script == <<example1, showUser, userIds, multi, pipelines, all, clickRuns, button, output,
            thrown, console>>

\* -------------------------------------- node-example/my-app/app.js
\* A path is a list of segments, a segment a name with its extension.
Seg(base, ext) == [base |-> base, ext |-> ext]

Up == Seg("..", "")

\* __dirname
Dirname == <<Seg("srv", ""), Seg("my-app", "")>>

IndexHtml == Seg("index", ".html")

StyleCss == Seg("style", ".css")

\* the files fs.readFile can read: the two files of the site, and a file next
\* to the site's directory
DiskFiles == {Dirname \o <<IndexHtml>>, Dirname \o <<StyleCss>>, <<Seg("srv", ""), Seg("secret", ".txt")>>}

\* req.url: "/", "/index.html", "/style.css", "/missing.css", "/../secret.txt",
\* "/../my-app/style.css" (node hands the request target over as it was sent)
Urls ==
    {<<>>, <<IndexHtml>>, <<StyleCss>>, <<Seg("missing", ".css")>>, <<Up, Seg("secret", ".txt")>>,
     <<Up, Seg("my-app", ""), StyleCss>>}

\* req.url === '/' ? '/index.html' : req.url
UrlPath(url) == IF url = <<>> THEN <<IndexHtml>> ELSE url

\* path.normalize of an absolute path: a ".." segment takes the segment before
\* it away (at the root it is dropped)
RECURSIVE Normalize(_)
Normalize(segs) ==
    IF segs = <<>> THEN <<>>
    ELSE LET front == Normalize(SubSeq(segs, 1, Len(segs) - 1))
             last == segs[Len(segs)]
         IN  IF last # Up THEN Append(front, last)
             ELSE IF front = <<>> THEN <<>>
             ELSE SubSeq(front, 1, Len(front) - 1)

\* path.join(__dirname, filePath)
PathJoin(dir, filePath) == Normalize(dir \o filePath)

\* path.extname(filePath)
ExtName(filePath) == IF filePath = <<>> THEN "" ELSE filePath[Len(filePath)].ext

ContentType(ext) == IF ext = ".css" THEN "text/css" ELSE "text/html"

\* fs.readFile(filePath, callback): what the callback is called with
ReadFile(filePath) ==
    IF filePath \in DiskFiles THEN [err |-> FALSE, data |-> filePath]
    ELSE [err |-> TRUE, data |-> <<>>]

\* the request listener, up to the call of fs.readFile
ServerHandle(url) ==
    LET filePath == PathJoin(Dirname, UrlPath(url))
    IN  [url |-> url, filePath |-> filePath, contentType |-> ContentType(ExtName(filePath)),
         state |-> "reading", responses |-> <<>>]

\* defective variant: contentType is a variable of the module, which the latest request
\* has set
CallbackContentTypeShared(reqs, i) == reqs[Len(reqs)].contentType

\* the contentType the callback of request i closes over
CallbackContentType(reqs, i) == reqs[i].contentType

\* (err, data) => { ... }: the one response of the request
ReadFileCallback(req, contentType, result) ==
    IF result.err
    THEN [req EXCEPT !.state = "done",
                     !.responses = Append(@, [status |-> 404, type |-> "", text |-> "File not found",
                                              data |-> <<>>])]
    ELSE [req EXCEPT !.state = "done",
                     !.responses = Append(@, [status |-> 200, type |-> contentType, text |-> "",
                                              data |-> result.data])]

\* a request arrives
ServerRequest ==
    /\ entry = "my-app"
    /\ Len(requests) < MaxRequests
    /\ \E url \in Urls : requests' = Append(requests, ServerHandle(url))
    /\ UNCHANGED <<entry, script, clock, itemCount, container>>

\* the read of request i is over: reads end in any order
ServerReadDone(i) ==
    /\ entry = "my-app"
    /\ requests[i].state = "reading"
    /\ requests' = [requests EXCEPT ![i] = ReadFileCallback(@, CallbackContentType(requests, i),
                                                            ReadFile(@.filePath))]
    /\ UNCHANGED <<entry, script, clock, itemCount, container>>

\* ------------------------------------------- dom-example/js/index.js
\* document.createElement('div'), with its class and its text
NewItem(count) ==
    [class |-> "item", textContent |-> [text |-> "Item ", n |-> count],
     backgroundColor |-> "", color |-> ""]

\* a click on #add-btn
AddClick ==
    /\ entry = "dom-example"
    /\ itemCount < MaxItems
    /\ itemCount' = itemCount + 1
    /\ container' = Append(container, NewItem(itemCount'))
    /\ UNCHANGED <<entry, script, clock, requests>>

\* defective variant: the listener colours every item of the container
ItemClickedAll(items, k) ==
    [j \in 1 .. Len(items) |-> [items[j] EXCEPT !.backgroundColor = "#3498db", !.color = "white"]]

\* the click listener of item k: newItem is the item the listener was made for
ItemClicked(items, k) ==
    [items EXCEPT ![k] = [@ EXCEPT !.backgroundColor = "#3498db", !.color = "white"]]

\* a click on the k-th item
ItemClick(k) ==
    /\ entry = "dom-example"
    /\ container' = ItemClicked(container, k)
    /\ UNCHANGED <<entry, script, clock, requests, itemCount>>

Next ==
    \/ Example1Start
    \/ Example1Resume
    \/ ShowUserDataCall
    \/ ShowUserDataResume
    \/ Click
    \/ \E r \in 1 .. Len(clickRuns) : ClickResume(r)
    \/ ShowMultipleUsersCall
    \/ \E i \in 1 .. Len(pipelines) : PipelineResume(i)
    \/ ServerRequest
    \/ \E i \in 1 .. Len(requests) : ServerReadDone(i)
    \/ AddClick
    \/ \E k \in 1 .. Len(container) : ItemClick(k)

\* every pending fetch, body, timer and file read eventually settles
Fairness ==
    /\ WF_vars(Example1Resume)
    /\ WF_vars(ShowUserDataResume)
    /\ \A r \in 1 .. MaxClicks : WF_vars(r <= Len(clickRuns) /\ ClickResume(r))
    /\ \A i \in 1 .. MaxIds : WF_vars(i <= Len(pipelines) /\ PipelineResume(i))
    /\ \A i \in 1 .. MaxRequests : WF_vars(i <= Len(requests) /\ ServerReadDone(i))

Spec == Init /\ [][Next]_vars /\ Fairness

\* ------------------------------------------------------- logical time
\* the orchestrations of the async script
Orchestrations ==
    {example1, showUser} \cup {clickRuns[r] : r \in 1 .. Len(clickRuns)}
        \cup {pipelines[i] : i \in 1 .. Len(pipelines)}

\* One unit of time passes: every call that is pending was made at the
\* present time, and none can go on before time passes.
Tick ==
    /\ clock.on
    /\ \E run \in Orchestrations : run.pending # {}
    /\ \A run \in Orchestrations : Due(run) = {}
    /\ clock' = [clock EXCEPT !.now = @ + 1]
    /\ UNCHANGED <<entry, script, requests, itemCount, container>>

TimedInit == Loaded /\ clock = [on |-> TRUE, now |-> 0]

TimedNext == Next \/ Tick

\* the scripts with every network call and delay taking one unit of time
TimedSpec == TimedInit /\ [][TimedNext]_vars

\* ================================================================ claims
ClickRunIds == 1 .. Len(clickRuns)

ClickPending(r) == clickRuns[r].pending # {}

\* the button is disabled while a click run is under way or has a step
\* pending, and enabled when every click run is over
C1_DisabledWhilePending ==
    /\ \A r \in ClickRunIds : clickRuns[r].pc # "done" \/ ClickPending(r) => button.disabled
    /\ (\A r \in ClickRunIds : clickRuns[r].pc = "done") => ~button.disabled

\* C1: from the click until the handler's finally block the button is
\* disabled whenever a step of a click run is pending (the first request
\* included), and it is enabled whenever every click run has completed, on
\* the success path and on each failure path; with every call settling, a
\* disabled button is eventually enabled again.
C1_ButtonLifecycle == [](C1_DisabledWhilePending) /\ (button.disabled ~> ~button.disabled)

\* two runs, both over: one failed at fetchUser with an HTTP error, one whose
\* rendering threw; the button is enabled
C1_Witness ==
    /\ Len(clickRuns) = 2
    /\ clickRuns[1].pc = "done" /\ clickRuns[1].err.name = "Error" /\ clickRuns[1].user = NoUser
    /\ clickRuns[2].pc = "done" /\ clickRuns[2].err = RenderError
    /\ ~button.disabled

PipelineIds == 1 .. Len(pipelines)

\* the console entries of orchestration `by` with the given text
Logged(by, text) == {k \in 1 .. Len(console) : console[k].by = by /\ console[k].text = text}

Count(seq, x) == Cardinality({k \in 1 .. Len(seq) : seq[k] = x})

\* C2: from the moment a pipeline of showMultipleUsers has failed, the
\* aggregate is over (whatever the other pipelines are doing), no result list
\* is or ever was logged, no result is kept, and the error handler has run
\* exactly once, with the error of a failed pipeline.
C2_FailFast ==
    (\E i \in PipelineIds : pipelines[i].pc = "rejected") =>
        /\ multi.pc = "done"
        /\ multi.trace = <<"catch", "finally">>
        /\ multi.results = <<>>
        /\ Logged("showMultipleUsers", "Users and their post counts:") = {}
        /\ Cardinality(Logged("showMultipleUsers", "Error fetching multiple users:")) = 1
        /\ \E i \in PipelineIds : pipelines[i].pc = "rejected" /\ pipelines[i].err = multi.err

\* the second of two pipelines has failed at its posts while the first still
\* waits for its count: the aggregate is over
C2_Witness ==
    /\ Len(pipelines) = 2
    /\ pipelines[2].pc = "rejected" /\ pipelines[2].user # NoUser
    /\ pipelines[1].pc = "awaitCount"
    /\ multi.pc = "done"

\* what the remote API holds for identifier id
ExpectedEntry(id) == [name |-> RemoteUser(id).name, postCount |-> Len(RemotePosts(id))]

\* C3: when every pipeline has succeeded, showMultipleUsers logs one list,
\* with one {name, postCount} entry per input identifier, entry i being that
\* of identifier i, whatever the order in which the pipelines completed.
C3_ResultOrder ==
    (multi.pc = "done" /\ multi.err = NoError) =>
        /\ Len(multi.results) = Len(userIds)
        /\ \A i \in 1 .. Len(userIds) : multi.results[i] = ExpectedEntry(userIds[i])
        /\ \E k \in 1 .. Len(console) :
              /\ Logged("showMultipleUsers", "Users and their post counts:") = {k}
              /\ console[k].arg = multi.results

\* the list [3, 1] has been fetched and logged
C3_Witness ==
    /\ userIds = <<3, 1>>
    /\ multi.pc = "done" /\ multi.err = NoError
    /\ Len(multi.results) = 2 /\ multi.results[1].name = "Carol Williams"

\* the sequential orchestrations
SeqRuns == {example1, showUser} \cup {clickRuns[r] : r \in ClickRunIds}

AllRuns == SeqRuns \cup {pipelines[i] : i \in PipelineIds}

After(seq, k) == SubSeq(seq, k + 1, Len(seq))

\* C4: in the Example 1 chain, showUserData and the click handler, once an
\* awaited step has failed no later step is started (nothing follows the
\* failure but the error handler and the final handler, and nothing is left
\* pending), and the error handler runs once for a failure and never without.
C4_AbortOnFailure ==
    \A run \in SeqRuns :
        /\ Count(run.trace, "catch") = Count(run.trace, "fail")
        /\ \A k \in 1 .. Len(run.trace) :
              run.trace[k] = "fail" =>
                  /\ After(run.trace, k) = <<"catch", "finally">>
                  /\ run.pending = {}
                  /\ run.pc = "done"

\* showUserData got its user and failed at the posts
C4_Witness ==
    /\ showUser.trace = <<"fetchUser", "ok", "fetchUserPosts", "fail", "catch", "finally">>
    /\ showUser.err # NoError

\* the run failed on a response with a status outside the success range
HttpFailed(run) == Count(run.trace, "fail") > 0 /\ run.status # 0 /\ run.status \notin 200 .. 299

\* C5: when an orchestration fails on a non-2xx response, what it surfaces
\* (the console.error of Example 1, showUserData and showMultipleUsers, the
\* error thrown out of the click handler) shows that response's status code.
C5_StatusSurfaced ==
    /\ HttpFailed(example1) =>
          \E k \in Logged("example1", "Error: ") : example1.status \in console[k].arg[1].codes
    /\ HttpFailed(showUser) =>
          \E k \in Logged("showUserData", "Failure due to:") : showUser.status \in console[k].arg[1].codes
    /\ multi.err.name = "Error" =>
          \E k \in Logged("showMultipleUsers", "Error fetching multiple users:") :
              \E i \in PipelineIds :
                  /\ HttpFailed(pipelines[i])
                  /\ console[k].arg[1] = pipelines[i].err
                  /\ pipelines[i].status \in console[k].arg[1].codes
    /\ \A r \in ClickRunIds :
          HttpFailed(clickRuns[r]) =>
              \E t \in 1 .. Len(thrown) : thrown[t].run = r /\ clickRuns[r].status \in thrown[t].err.codes

\* the final handler ran once and last, right after the success steps or the
\* error handler, if the run is over, and not at all if it is not
FinalOnce(run) ==
    IF run.pc = "done"
    THEN /\ Count(run.trace, "finally") = 1
         /\ Len(run.trace) >= 2
         /\ run.trace[Len(run.trace)] = "finally"
         /\ run.trace[Len(run.trace) - 1] \in {"ok", "log", "catch"}
    ELSE Count(run.trace, "finally") = 0

\* the three modes ran their final handler once if over, not at all if not,
\* and logged its line as often
C6_FinalOnce ==
    /\ FinalOnce(example1)
    /\ FinalOnce(showUser)
    /\ FinalOnce(multi)
    /\ Cardinality(Logged("example1", "Process Complete")) = (IF example1.pc = "done" THEN 1 ELSE 0)
    /\ Cardinality(Logged("showUserData", "Done")) = (IF showUser.pc = "done" THEN 1 ELSE 0)
    /\ Cardinality(Logged("showMultipleUsers", "All fetches complete")) = (IF multi.pc = "done" THEN 1 ELSE 0)

\* C6: in the Example 1 chain, showUserData and showMultipleUsers the final
\* handler runs exactly once per invocation, after the success steps or the
\* error handler and never before the end; with every call and delay
\* settling, every invocation gets there.
C6_FinalHandler ==
    /\ [](C6_FinalOnce)
    /\ (example1.pc # "start" ~> example1.pc = "done")
    /\ (showUser.pc # "start" ~> showUser.pc = "done")
    /\ (multi.pc # "start" ~> multi.pc = "done")

\* showMultipleUsers over two identifiers failed and ran its handlers
C6_Witness ==
    /\ Len(userIds) = 2
    /\ multi.pc = "done"
    /\ multi.trace = <<"catch", "finally">>
    /\ console[Len(console)].text = "All fetches complete"

\* every later step was started right after the step before it had resolved
Ordered(trace) ==
    \A k \in 1 .. Len(trace) :
        /\ trace[k] = "fetchUser" => k = 1
        /\ trace[k] = "fetchUserPosts" => k = 3 /\ trace[1] = "fetchUser" /\ trace[2] = "ok"
        /\ trace[k] \in {"fetchPostCount", "render"} =>
              k = 5 /\ trace[3] = "fetchUserPosts" /\ trace[4] = "ok"

\* C7: in the Example 1 chain, showUserData and the click handler the posts
\* request is issued only once the user fetch has resolved, the count (or the
\* rendering) starts only once the posts fetch has resolved, and an
\* orchestration never has two steps pending.
C7_StrictOrder ==
    \A run \in SeqRuns :
        /\ Cardinality(run.pending) <= 1
        /\ Ordered(run.trace)
        /\ \A call \in run.pending :
              /\ run.pc = "awaitUser" => call.fn = "fetchUser"
              /\ run.pc = "awaitPosts" => call.fn = "fetchUserPosts" /\ call.url[2] = run.user.id
              /\ run.pc = "awaitCount" => call.fn = "fetchPostCount" /\ call.posts = run.posts

\* the Example 1 chain waits for its count, the two fetches behind it
C7_Witness ==
    /\ example1.pc = "awaitCount"
    /\ example1.pending = {fetchPostCount(RemotePosts(1))}
    /\ example1.trace = <<"fetchUser", "ok", "fetchUserPosts", "ok", "fetchPostCount">>

\* C8 as claimed: when showMultipleUsers has logged 'All fetches complete',
\* no step of any pipeline is pending, on the failure path too.
C8_AllSettledAtFinally ==
    multi.pc = "done" => \A i \in PipelineIds : pipelines[i].pending = {}

\* C8 as amended: on the success path every pipeline has fulfilled and none
\* has a step pending when the final block logs; on the failure path the
\* pipeline whose error is handled has settled (others may still be pending).
C8_SettledOnSuccess ==
    /\ (multi.pc = "done" /\ multi.err = NoError) =>
          \A i \in PipelineIds : pipelines[i].pc = "fulfilled" /\ pipelines[i].pending = {}
    /\ (multi.pc = "done" /\ multi.err # NoError) =>
          \E i \in PipelineIds :
              pipelines[i].pc = "rejected" /\ pipelines[i].pending = {} /\ pipelines[i].err = multi.err

\* [2, 1] fetched: both pipelines fulfilled, the final block has logged
C8_Witness ==
    /\ userIds = <<2, 1>>
    /\ multi.trace = <<"log", "finally">>
    /\ \A i \in PipelineIds : pipelines[i].pc = "fulfilled"

\* C9: once showMultipleUsers has been called, every identifier of its list
\* has a pipeline of its own whose fetchUser request has been issued; this
\* holds from the first state on, before any response is processed.
C9_AllStarted ==
    multi.pc # "start" =>
        /\ Len(pipelines) = Len(userIds)
        /\ \A i \in 1 .. Len(userIds) :
              /\ pipelines[i].arg = userIds[i]
              /\ pipelines[i].pc # "start"
              /\ Len(pipelines[i].trace) >= 1 /\ pipelines[i].trace[1] = "fetchUser"

\* two requests in flight, no response yet, the aggregate is awaited
C9_Witness ==
    /\ Len(userIds) = 2
    /\ multi.pc = "awaitAll"
    /\ \A i \in PipelineIds : pipelines[i].pending = {fetchUser(userIds[i])}

\* C10: fetchUser and fetchUserPosts parse the body of a response only if its
\* status is in the success range and then return what the API holds for the
\* identifier; on any other status they fail, without parsing, with an Error
\* whose message shows exactly that status.
C10_FetchContract ==
    \A run \in AllRuns :
        /\ \A call \in run.pending : call.at = "json" => call.status \in 200 .. 299
        /\ run.err.name = "Error" =>
              /\ run.status \notin 200 .. 299
              /\ run.err.codes = {run.status}
        /\ (Count(run.trace, "fail") > 0 /\ run.status \in Statuses \ (200 .. 299)) =>
              run.err.name = "Error"
        /\ run.user # NoUser => run.user = RemoteUser(run.arg)
        /\ (Len(run.trace) >= 4 /\ run.trace[4] = "ok") => run.posts = RemotePosts(run.user.id)

\* showUserData(2) got the user and failed at the posts on a 500
C10_Witness ==
    /\ showUser.arg = 2
    /\ showUser.user = RemoteUser(2)
    /\ showUser.status = 500
    /\ showUser.err = fetchUserPostsError(500)

\* each pipeline holds what the API answered to its own requests, whatever
\* the other pipelines of the list have got so far
PipelineOwnValues ==
    \A i \in PipelineIds :
        LET run == pipelines[i]
        IN  /\ run.arg = userIds[i]
            /\ run.user \in {NoUser, RemoteUser(userIds[i])}
            /\ run.posts \in {<<>>, RemotePosts(RemoteUser(userIds[i]).id)}
            /\ run.count \in {0, Len(RemotePosts(RemoteUser(userIds[i]).id))}
            /\ all.values[i] \in {Hole, ExpectedEntry(userIds[i])}
            /\ run.pc = "fulfilled" =>
                  /\ PipelineValue(run) = ExpectedEntry(userIds[i])
                  /\ all.values[i] = ExpectedEntry(userIds[i])

\* a step that changes one pipeline leaves every other pipeline as it was
PipelineWritesOwn ==
    \A i \in PipelineIds : \A j \in PipelineIds \ {i} :
        pipelines'[i] # pipelines[i] => pipelines'[j] = pipelines[j]

\* C11: in showMultipleUsers no step of a pipeline writes the user, posts or
\* count of another pipeline, and what a pipeline holds and returns is what
\* the API answered to its own requests, in every interleaving of the
\* pipelines' suspension points.
C11_PipelinesIsolated == [](PipelineOwnValues) /\ [][PipelineWritesOwn]_vars

\* [1, 2]: pipeline 2 has fulfilled with Bob's entry while pipeline 1 has got
\* Alice and still waits for her posts
C11_Witness ==
    /\ userIds = <<1, 2>>
    /\ pipelines[2].pc = "fulfilled" /\ all.values[2] = ExpectedEntry(2)
    /\ pipelines[1].pc = "awaitPosts" /\ pipelines[1].user = RemoteUser(1)
    /\ all.values[1] = Hole

\* the click run failed at a step after its first: it had got its user
FailedLater(run) == run.pc = "done" /\ run.err # NoError /\ run.user # NoUser

\* the fragments of click run r in #output
Shown(r) == {k \in 1 .. Len(output) : output[k].run = r}

\* C12 as claimed: when a click run failed at a step after the first, #output
\* shows nothing that the earlier steps of that run obtained.
C12_NoPartialOutput ==
    \A r \in ClickRunIds : FailedLater(clickRuns[r]) => Shown(r) = {}

\* C12 as amended: when a click run failed at a step after the first, #output
\* never shows the profile of that run; it keeps the progress lines of the
\* steps that succeeded: 'Step 1' with the user's name when the posts request
\* failed, 'Step 1' and 'Step 2' with the number of posts when rendering threw
\* (until a later run has fetched its user).
C12_ProgressLinesOnly ==
    \A r \in ClickRunIds :
        LET run == clickRuns[r]
        IN  FailedLater(run) =>
                /\ \A k \in Shown(r) : output[k].kind # "profile"
                /\ (\A q \in (r + 1) .. Len(clickRuns) : clickRuns[q].user = NoUser) =>
                      output = IF run.err = RenderError
                               THEN <<Step1(r, run.user), Step2(r, run.posts)>>
                               ELSE <<Step1(r, run.user)>>

\* the first run fetched Alice and failed at her posts; the region still shows
\* its 'Step 1' line
C12_Witness ==
    /\ Len(clickRuns) = 1
    /\ FailedLater(clickRuns[1]) /\ clickRuns[1].err.name = "Error"
    /\ output = <<Step1(1, RemoteUser(1))>>

\* C13: in every orchestration the posts request is issued for the id of the
\* user object that the user fetch returned, not for the raw input, so every
\* post an orchestration holds has the userId of the user it holds.
C13_PostsOfFetchedUser ==
    \A run \in AllRuns :
        /\ \A call \in run.pending :
              call.fn = "fetchUserPosts" => run.user # NoUser /\ call.url[2] = run.user.id
        /\ \A k \in 1 .. Len(run.posts) : run.posts[k].userId = run.user.id
        /\ (Len(run.trace) >= 4 /\ run.trace[4] = "ok") => run.posts = RemotePosts(run.user.id)

\* a click with an input that is not the id of the user it names: the run
\* holds user 1 and the two posts of user 1
C13_Witness ==
    \E r \in ClickRunIds :
        /\ clickRuns[r].arg # clickRuns[r].user.id
        /\ clickRuns[r].user = RemoteUser(1)
        /\ Len(clickRuns[r].posts) = 2
        /\ \A k \in 1 .. 2 : clickRuns[r].posts[k].userId = 1

\* the click runs that are not over
ClickInProgress == {r \in ClickRunIds : clickRuns[r].pc # "done" \/ ClickPending(r)}

\* at most one click run is under way, it is the latest one, and #output
\* holds fragments of one run only, in the order that run writes them
OneClickRun ==
    /\ Cardinality(ClickInProgress) <= 1
    /\ ClickInProgress \subseteq {Len(clickRuns)}
    /\ \A k \in 1 .. Len(output) :
          /\ output[k].run = output[1].run
          /\ output[k].kind = <<"step1", "step2", "profile">>[k]

\* a click starts a run only when no run is under way
ClickStartsAlone ==
    Len(clickRuns') > Len(clickRuns) => ClickInProgress = {} /\ ~button.disabled

\* C17: at most one run of the click handler is in progress at any time: a
\* run starts only when every earlier run is over (the button is disabled in
\* between and delivers no click), so the fragments in #output are never a
\* mix of two runs, for every sequence of clicks and response arrivals.
C17_OneRunAtATime == [](OneClickRun) /\ [][ClickStartsAlone]_vars

\* the first run rendered its profile; the second run, started after it, has
\* replaced the region with its own 'Step 1' line and waits for its posts
C17_Witness ==
    /\ Len(clickRuns) = 2
    /\ clickRuns[1].pc = "done" /\ clickRuns[1].err = NoError
    /\ ClickInProgress = {2}
    /\ output = <<Step1(2, clickRuns[2].user)>>
    /\ button.disabled

\* once the latest click run has got its user, #output holds fragments of
\* that run only, 'Step 1' first; after a run that succeeded it holds the
\* three fragments of that run
OutputOfLatestRun ==
    \A r \in ClickRunIds :
        LET run == clickRuns[r]
        IN  (r = Len(clickRuns) /\ run.user # NoUser) =>
                /\ Len(output) >= 1 /\ output[1] = Step1(r, run.user)
                /\ \A k \in 1 .. Len(output) : output[k].run = r
                /\ (run.pc = "done" /\ run.err = NoError) =>
                      output = <<Step1(r, run.user), Step2(r, run.posts), Profile(r, run.user, run.posts)>>

\* a step that leaves the latest click run without a user (the click itself,
\* the response to fetchUser, its failure) leaves #output as it was
OutputKeptUntilUser ==
    (clickRuns' # <<>> /\ clickRuns'[Len(clickRuns')].user = NoUser) => output' = output

\* C18: the click and a failure of fetchUser leave #output exactly as it was
\* (what an earlier run wrote stays displayed); the region is replaced only
\* in the step in which fetchUser has succeeded, and after a run that
\* succeeded in full it holds the content of that run only.
C18_OutputFrame == [](OutputOfLatestRun) /\ [][OutputKeptUntilUser]_vars

\* the first run rendered a profile, the second failed at fetchUser: the
\* region still shows the three fragments of the first run
C18_Witness ==
    /\ Len(clickRuns) = 2
    /\ clickRuns[2].pc = "done" /\ clickRuns[2].user = NoUser /\ clickRuns[2].err # NoError
    /\ Len(output) = 3
    /\ \A k \in 1 .. 3 : output[k].run = 1
    /\ output[3].kind = "profile"

RequestIds == 1 .. Len(requests)

\* the path lies in directory dir
Inside(dir, filePath) == Len(filePath) >= Len(dir) /\ SubSeq(filePath, 1, Len(dir)) = dir

\* C14: for every request URL, those with '..' segments included, the path
\* the static server hands to fs.readFile lies inside its base directory.
C14_InsideBase ==
    \A i \in RequestIds : Inside(Dirname, requests[i].filePath)

\* the response the static server owes request req
ExpectedResponse(req) ==
    IF req.filePath \in DiskFiles
    THEN [status |-> 200,
          type |-> IF ExtName(req.filePath) = ".css" THEN "text/css" ELSE "text/html",
          text |-> "", data |-> req.filePath]
    ELSE [status |-> 404, type |-> "", text |-> "File not found", data |-> <<>>]

\* no response while the file is read, and then the one response the request
\* is owed, whatever the other requests are and whichever read ended first
OneResponseEach ==
    \A i \in RequestIds :
        LET req == requests[i]
        IN  /\ req.url = <<>> => req.filePath = Dirname \o <<IndexHtml>>
            /\ req.state = "reading" => req.responses = <<>>
            /\ req.state = "done" => req.responses = <<ExpectedResponse(req)>>

\* C15: the static server sends exactly one response per request: status 200
\* with the file's data, as text/css when the extension is .css and as
\* text/html otherwise, if the resolved file can be read, and status 404
\* without file data if not; '/' resolves to index.html; the response of a
\* request is its own when reads of concurrent requests end out of order;
\* and every request gets its response.
C15_OneResponse ==
    /\ [](OneResponseEach)
    /\ \A i \in 1 .. MaxRequests :
          (Len(requests) >= i) ~> (Len(requests) >= i /\ requests[i].state = "done")

\* '/style.css' came first and is still being read while '/', which came
\* second, has been answered with index.html as text/html
C15_Witness ==
    /\ Len(requests) = 2
    /\ requests[1].url = <<StyleCss>> /\ requests[1].state = "reading"
    /\ requests[2].url = <<>> /\ requests[2].state = "done"
    /\ requests[2].responses[1].status = 200
    /\ requests[2].responses[1].type = "text/html"
    /\ requests[2].responses[1].data = Dirname \o <<IndexHtml>>

ItemIds == 1 .. Len(container)

\* itemCount is the number of items, and the k-th item is labelled 'Item k'
ItemsCounted ==
    /\ itemCount = Len(container)
    /\ \A k \in ItemIds :
          /\ container[k].textContent = [text |-> "Item ", n |-> k]
          /\ container[k].class = "item"
    /\ \A j \in ItemIds : \A k \in ItemIds :
          j < k => container[j].textContent.n < container[k].textContent.n

\* a step that is no click on the add button changes the colours of one item
\* at most, and nothing else
ItemClickFrame ==
    itemCount' = itemCount =>
        /\ Len(container') = Len(container)
        /\ \A k \in ItemIds :
              /\ container'[k].textContent = container[k].textContent
              /\ container'[k].class = container[k].class
        /\ \A j \in ItemIds : \A k \in ItemIds \ {j} :
              container'[j] # container[j] => container'[k] = container[k]

\* C19: in the dom-example script, after any sequence of clicks on the add
\* button and on items, itemCount is the number of items in the container
\* and the k-th item appended is labelled 'Item k' (labels are unique and
\* increasing); a click on an item changes the colours of that item only,
\* never itemCount, the children of the container or another item.
C19_ItemsAndClicks == [](ItemsCounted) /\ [][ItemClickFrame]_vars

\* three items, the second one clicked: it alone is coloured
C19_Witness ==
    /\ itemCount = 3
    /\ container[2].backgroundColor = "#3498db" /\ container[2].color = "white"
    /\ container[1].backgroundColor = "" /\ container[3].backgroundColor = ""
    /\ container[3].textContent = [text |-> "Item ", n |-> 3]

\* the awaited calls of the run that have settled
SettledCalls(run) == Count(run.trace, "ok") + Count(run.trace, "fail")

\* C16: with the clock on (one unit of time per network call or delay), the
\* Example 1 chain and showUserData complete at time 3, the sum of their
\* three steps, each step being made at the time the step before it ended;
\* showMultipleUsers over n >= 1 identifiers completes at time 3 too, the
\* time of its slowest pipeline, and not at 3n.
C16_LogicalTime ==
    /\ clock.on
    /\ \A run \in {example1, showUser} \cup {pipelines[i] : i \in PipelineIds} :
          /\ run.at = SettledCalls(run)
          /\ (run.pc \in {"done", "fulfilled"} /\ run.err = NoError) => run.at = 3
    /\ \A run \in {example1, showUser} : run.pc = "done" => clock.now = run.at
    /\ (multi.pc = "done" /\ multi.err = NoError /\ userIds # <<>>) =>
          /\ clock.now = 3
          /\ \A i \in PipelineIds : pipelines[i].at = 3

\* showMultipleUsers over two identifiers has logged its list at time 3
C16_Witness ==
    /\ clock.on
    /\ Len(userIds) = 2
    /\ multi.trace = <<"log", "finally">>
    /\ clock.now = 3

====
